---- MODULE Spec2Model ----
(***************************************************************************)
(* A model of the Minecraft server-status backend:                         *)
(*   internal/service/server.go  - the protocol client (GetServerStatus,   *)
(*                                 PacketBuffer, readVarInt, unescape)     *)
(*   the HTTP handler            - handlers.GetServerStatus                *)
(*   the second implementation   - readAndParseResponse on a bufio.Reader  *)
(*                                 with binary.ReadUvarint                 *)
(* Strings and byte slices are sequences of byte values 0..255.            *)
(* int32 values are TLA+ integers in -2^31 .. 2^31-1; a uint32 is the      *)
(* function of its 32 bits, since 2^32 is outside the checker's integers.  *)
(***************************************************************************)
EXTENDS Integers, Sequences, FiniteSets, TLC

\* ------------------------------------------------------------------------
\* State
\* ------------------------------------------------------------------------

\* PacketBuffer.WriteVarInt / readVarInt exercised alone
VARIABLES v_pc, v_val, v_prefix, v_tail, v_buf, v_res

\* unescapeUnicode exercised alone
VARIABLES u_pc, u_in, u_out

\* one call of GetServerStatus (internal/service/server.go)
VARIABLES
    pc,          \* where the call stands
    address,     \* the argument
    host,        \* host, portStr, port: the locals of the same names
    portStr,
    port,
    ips,         \* the result of net.LookupIP, IP addresses named 1, 2, ..
    conn,        \* "none", "open" or "closed"
    deadline,    \* whether conn.SetDeadline has armed the 10 s deadline
    log,         \* the network operations performed so far, in order
    wire,        \* the byte slices handed to conn.Write, in order
    stream,      \* what the server sends back
    rpos,        \* bytes of the response header consumed so far
    jsonLength,  \* the local of readAndParseResponse
    payload,     \* rawResponse, as the JSON document its bytes denote
    retStatus,   \* the returned *ServerStatus: <<>> is nil, <<s>> points to s
    retErr       \* the returned error: "nil" or its kind

\* json.Unmarshal and the description fallback exercised alone
VARIABLES d_pc, d_doc, d_status, d_err

\* the HTTP handler handlers.GetServerStatus
VARIABLES h_pc, h_address, h_coreCalls, h_core, h_responses, h_served

\* the two implementations of readAndParseResponse on one byte stream
VARIABLES r_pc, r_stream, r_manual, r_buffered

\* several calls of GetServerStatus at once
VARIABLES
    c_env,       \* per call: the address and what the network does for it
    c_calls,     \* per call: its position, its locals and what it returned
    c_conns      \* the connections net.DialTimeout has returned, in order

qvars == <<pc, address, host, portStr, port, ips, conn, deadline, log, wire,
           stream, rpos, jsonLength, payload, retStatus, retErr>>
vvars == <<v_pc, v_val, v_prefix, v_tail, v_buf, v_res>>
uvars == <<u_pc, u_in, u_out>>
dvars == <<d_pc, d_doc, d_status, d_err>>
hvars == <<h_pc, h_address, h_coreCalls, h_core, h_responses, h_served>>
rvars == <<r_pc, r_stream, r_manual, r_buffered>>
cvars == <<c_env, c_calls, c_conns>>
vars == <<qvars, vvars, uvars, dvars, hvars, rvars, cvars>>

\* ------------------------------------------------------------------------
\* Bounds of the model
\* ------------------------------------------------------------------------

\* int32 inputs of the codec: -MaxSmall..MaxSmall and the 7-bit group borders
MaxSmall == 40
\* number of parts an input text of unescapeUnicode is made of
MaxParts == 5

\* ------------------------------------------------------------------------
\* Machine integers
\* ------------------------------------------------------------------------

\* bit i of the two's complement form of the int32 v
Bit(v, i) == IF i = 31 THEN (IF v < 0 THEN 1 ELSE 0) ELSE (v \div (2^i)) % 2

\* uint32(val): the same 32 bits read as unsigned
ToUint32(v) == [i \in 0..31 |-> Bit(v, i)]

RECURSIVE BitsVal(_, _)
\* the number the bits 0..n-1 of u denote
BitsVal(u, n) == IF n = 0 THEN 0 ELSE BitsVal(u, n - 1) + u[n - 1] * (2^(n - 1))

\* int32(u): the 32 bits read as a signed value
ToInt32(u) == IF u[31] = 1 THEN (BitsVal(u, 31) - 2^30) - 2^30 ELSE BitsVal(u, 31)

\* ux >= 0x80
U32GE80(u) == \E i \in 7..31 : u[i] = 1

\* ux >>= 7
Shr7(u) == [i \in 0..31 |-> IF i + 7 <= 31 THEN u[i + 7] ELSE 0]

\* byte(ux)
ByteOf(u) == BitsVal(u, 8)

\* mutant: the continuation bit is not set
Or80_m(b) == b
\* b | 0x80
Or80(b) == IF b >= 128 THEN b ELSE b + 128

\* int32(b & 0x7F) << shift, in 32 bits: the bits shifted past bit 31 are lost
Shl32(b, shift) ==
    [i \in 0..31 |-> IF i >= shift /\ i - shift <= 6 THEN Bit(b % 128, i - shift) ELSE 0]

\* result |= x
Or32(a, b) == [i \in 0..31 |-> IF a[i] = 1 \/ b[i] = 1 THEN 1 ELSE 0]

Zero32 == [i \in 0..31 |-> 0]

\* ------------------------------------------------------------------------
\* PacketBuffer
\* ------------------------------------------------------------------------

RECURSIVE WriteVarIntLoop(_)
\* the loop of WriteVarInt on ux, and its last WriteByte
WriteVarIntLoop(ux) ==
    IF U32GE80(ux)
    THEN <<Or80(ByteOf(ux))>> \o WriteVarIntLoop(Shr7(ux))
    ELSE <<ByteOf(ux)>>

\* func (pb *PacketBuffer) WriteVarInt(val int32): the buffer afterwards
WriteVarInt(buffer, val) == buffer \o WriteVarIntLoop(ToUint32(val))

\* ------------------------------------------------------------------------
\* readVarInt
\* ------------------------------------------------------------------------

\* mutant: the length limit hits one byte late
VarIntShiftLimit_late == 32 + 7
\* mutant: the length limit hits one byte early
VarIntShiftLimit_m == 35 - 7
\* if shift >= 32 { return 0, fmt.Errorf("VarInt too long") }
VarIntShiftLimit == 32

RECURSIVE readVarIntLoop(_, _, _, _)
\* one round of the loop of readVarInt: r is the bytes the reader still
\* delivers, n the bytes consumed so far. A Read past the end of r fails.
readVarIntLoop(r, n, result, shift) ==
    IF n + 1 > Len(r)
    THEN [val |-> 0, err |-> "read", n |-> n]
    ELSE LET b == r[n + 1]
             res2 == Or32(result, Shl32(b, shift))
         IN  IF b < 128
             THEN [val |-> ToInt32(res2), err |-> "nil", n |-> n + 1]
             ELSE IF shift + 7 >= VarIntShiftLimit
                  THEN [val |-> 0, err |-> "toolong", n |-> n + 1]
                  ELSE readVarIntLoop(r, n + 1, res2, shift + 7)

\* func readVarInt(r io.Reader) (int32, error)
readVarInt(r) == readVarIntLoop(r, 0, Zero32, 0)

\* ------------------------------------------------------------------------
\* unescapeUnicode
\* ------------------------------------------------------------------------

ChBackslash == 92
ChU == 117
ChPlus == 43
ChMinus == 45

IsHexDigit(c) == (c >= 48 /\ c <= 57) \/ (c >= 97 /\ c <= 102) \/ (c >= 65 /\ c <= 70)

HexVal(c) == IF c <= 57 THEN c - 48 ELSE IF c >= 97 THEN c - 87 ELSE c - 55

RECURSIVE ParseUint16(_)
\* strconv.ParseUint(s, 16, ..) on a string of hexadecimal digits
ParseUint16(s) ==
    IF Len(s) = 0 THEN 0 ELSE ParseUint16(SubSeq(s, 1, Len(s) - 1)) * 16 + HexVal(s[Len(s)])

AllHex(s) == Len(s) > 0 /\ \A k \in 1..Len(s) : IsHexDigit(s[k])

\* strconv.ParseInt(s, 16, 32): an optional sign, then hexadecimal digits
ParseInt16(s) ==
    IF Len(s) = 0 THEN [ok |-> FALSE, val |-> 0]
    ELSE LET signed == s[1] = ChPlus \/ s[1] = ChMinus
             digits == IF signed THEN SubSeq(s, 2, Len(s)) ELSE s
         IN  IF ~AllHex(digits) THEN [ok |-> FALSE, val |-> 0]
             ELSE [ok |-> TRUE,
                   val |-> IF s[1] = ChMinus THEN 0 - ParseUint16(digits)
                           ELSE ParseUint16(digits)]

\* utf8.RuneError as UTF-8
RuneErrorBytes == <<239, 191, 189>>

\* buf.WriteRune(rune(r)): the bytes appended
WriteRune(r) ==
    IF r >= 0 /\ r < 128 THEN <<r>>
    ELSE IF r < 0 \/ r > 1114111 \/ (r >= 55296 /\ r <= 57343) THEN RuneErrorBytes
    ELSE IF r <= 2047 THEN <<192 + (r \div 64), 128 + (r % 64)>>
    ELSE IF r <= 65535 THEN <<224 + (r \div 4096), 128 + ((r \div 64) % 64), 128 + (r % 64)>>
    ELSE <<240 + (r \div 262144), 128 + ((r \div 4096) % 64),
           128 + ((r \div 64) % 64), 128 + (r % 64)>>

RECURSIVE unescapeLoop(_, _)
\* the loop of unescapeUnicode from index i (counted from 1)
unescapeLoop(s, i) ==
    IF i > Len(s) THEN <<>>
    ELSE IF i + 5 <= Len(s) /\ s[i] = ChBackslash /\ s[i + 1] = ChU
               /\ ParseInt16(SubSeq(s, i + 2, i + 5)).ok
         THEN WriteRune(ParseInt16(SubSeq(s, i + 2, i + 5)).val) \o unescapeLoop(s, i + 6)
         ELSE <<s[i]>> \o unescapeLoop(s, i + 1)

\* func unescapeUnicode(s string) string
unescapeUnicode(s) == unescapeLoop(s, 1)

\* ------------------------------------------------------------------------
\* Address resolution (GetServerStatus, the net package calls)
\* ------------------------------------------------------------------------

ChColon == 58
ChLBracket == 91
ChRBracket == 93
ChLetterH == 104
ChDigit1 == 49

\* "25565"
DefaultPortStr == <<50, 53, 53, 54, 53>>

\* the first / last position of byte c in s, 0 when there is none
IndexByte(s, c) ==
    IF \E k \in 1..Len(s) : s[k] = c
    THEN CHOOSE k \in 1..Len(s) : s[k] = c /\ \A m \in 1..(k - 1) : s[m] # c
    ELSE 0
LastIndexByte(s, c) ==
    IF \E k \in 1..Len(s) : s[k] = c
    THEN CHOOSE k \in 1..Len(s) : s[k] = c /\ \A m \in (k + 1)..Len(s) : s[m] # c
    ELSE 0

Contains(s, c) == \E k \in 1..Len(s) : s[k] = c

SplitErr(why) == [err |-> why, host |-> <<>>, port |-> <<>>]

\* mutant: several colons outside brackets are not rejected
SplitHostPort_m(hostport) ==
    LET i == LastIndexByte(hostport, ChColon)
    IN  IF i = 0 THEN SplitErr("missing port")
        ELSE [err |-> "nil", host |-> SubSeq(hostport, 1, i - 1),
              port |-> SubSeq(hostport, i + 1, Len(hostport))]
\* net.SplitHostPort(hostport): positions are counted from 1 here
SplitHostPort(hostport) ==
    LET i == LastIndexByte(hostport, ChColon)
        end == IndexByte(hostport, ChRBracket)
        bracketed == hostport[1] = ChLBracket
        h == IF bracketed THEN SubSeq(hostport, 2, end - 1) ELSE SubSeq(hostport, 1, i - 1)
        j == IF bracketed THEN 2 ELSE 1
        k == IF bracketed THEN end + 1 ELSE 1
    IN  IF i = 0 THEN SplitErr("missing port")
        ELSE IF bracketed /\ end = 0 THEN SplitErr("missing ']'")
        ELSE IF bracketed /\ end = Len(hostport) THEN SplitErr("missing port")
        ELSE IF bracketed /\ end + 1 # i
             THEN (IF hostport[end + 1] = ChColon THEN SplitErr("too many colons")
                   ELSE SplitErr("missing port"))
        ELSE IF ~bracketed /\ Contains(h, ChColon) THEN SplitErr("too many colons")
        ELSE IF Contains(SubSeq(hostport, j, Len(hostport)), ChLBracket)
             THEN SplitErr("unexpected '['")
        ELSE IF Contains(SubSeq(hostport, k, Len(hostport)), ChRBracket)
             THEN SplitErr("unexpected ']'")
        ELSE [err |-> "nil", host |-> h, port |-> SubSeq(hostport, i + 1, Len(hostport))]

IsDigit(c) == c >= 48 /\ c <= 57

RECURSIVE DecVal(_)
DecVal(s) == IF Len(s) = 0 THEN 0 ELSE DecVal(SubSeq(s, 1, Len(s) - 1)) * 10 + (s[Len(s)] - 48)

\* net.LookupPort("tcp", service): "" is port 0, digits are the number when it
\* is at most 65535; the other texts of the model name no service
LookupPort(service) ==
    IF Len(service) = 0 THEN [err |-> "nil", port |-> 0]
    ELSE IF \A k \in 1..Len(service) : IsDigit(service[k])
         THEN (IF DecVal(service) > 65535 THEN [err |-> "invalid port", port |-> 0]
               ELSE [err |-> "nil", port |-> DecVal(service)])
         ELSE [err |-> "unknown port", port |-> 0]

\* ------------------------------------------------------------------------
\* Packets
\* ------------------------------------------------------------------------

\* func (pb *PacketBuffer) WriteString(s string)
WriteString(buffer, s) == WriteVarInt(buffer, Len(s)) \o s

\* func (pb *PacketBuffer) WriteUnsignedShort(val uint16): big endian
WriteUnsignedShort(buffer, val) == buffer \o <<val \div 256, val % 256>>

\* sendPacket: the bytes handed to conn.Write for the body data
sendPacket(data) == WriteVarInt(<<>>, Len(data)) \o data

\* mutant: the handshake announces protocol version 47
HandshakeBody_m(h, p) ==
    WriteVarInt(WriteUnsignedShort(WriteString(WriteVarInt(WriteVarInt(<<>>, 0), 47), h), p), 1)
\* sendHandshakePacket: the body it assembles
HandshakeBody(h, p) ==
    WriteVarInt(WriteUnsignedShort(WriteString(WriteVarInt(WriteVarInt(<<>>, 0), -1), h), p), 1)

\* sendStatusRequestPacket: the body it assembles
StatusRequestBody == WriteVarInt(<<>>, 0)

\* ------------------------------------------------------------------------
\* JSON documents, as encoding/json sees them
\* ------------------------------------------------------------------------
\* A payload is the document its bytes denote. Keys are the lower-case keys
\* of the struct tags and no key occurs twice. A value is a record with its
\* JSON type t: "missing" (no such key), "null", "string", "number", "array",
\* "object"; a string carries its decoded bytes s.

\* longest "extra" array of a description
MaxExtra == 2

TxtHi == <<72, 105>>
\* the six bytes \u0041, as a server sends them when it escapes twice
TxtEsc == <<92, 117, 48, 48, 52, 49>>

DTexts == {<<>>, TxtHi, TxtEsc}
ETexts == {TxtHi, TxtEsc}

SeqsUpTo(S, n) == UNION {[1..m -> S] : m \in 0..n}

Scalar(type) == [t |-> type, s |-> <<>>, n |-> 0]
Str(x) == [t |-> "string", s |-> x, n |-> 0]
Num(x) == [t |-> "number", s |-> <<>>, n |-> x]

\* the values of the key "text" of a description object
TextVs == {Scalar("missing"), Scalar("null"), Num(42)} \cup {Str(x) : x \in DTexts}

\* the elements of an "extra" array: an object {"text": s}, or a bare string s
ElemVs == {[t |-> k, s |-> x] : k \in {"object", "string"}, x \in ETexts}

NoExtra == [t |-> "missing", a |-> <<>>]

\* the values of the key "extra" of a description object
ExtraVs ==
    {[t |-> k, a |-> <<>>] : k \in {"missing", "null", "string"}}
        \cup {[t |-> "array", a |-> q] : q \in SeqsUpTo(ElemVs, MaxExtra)}

\* the values of the key "description"
DescVs ==
    {[t |-> k, s |-> <<>>, text |-> Scalar("missing"), extra |-> NoExtra] :
        k \in {"missing", "null", "number", "array"}}
    \cup {[t |-> "string", s |-> x, text |-> Scalar("missing"), extra |-> NoExtra] :
            x \in DTexts}
    \cup {[t |-> "object", s |-> <<>>, text |-> tv, extra |-> ev] :
            tv \in TextVs, ev \in ExtraVs}

\* the other keys of the payload: version.protocol, players.max,
\* players.online and favicon
Others ==
    { [protocol |-> Num(760), max |-> Num(100), online |-> Num(5), favicon |-> Str(TxtHi)],
      [protocol |-> Num(47), max |-> Num(-1), online |-> Num(-5), favicon |-> Scalar("missing")],
      [protocol |-> Num(760), max |-> Str(TxtHi), online |-> Num(5), favicon |-> Str(TxtHi)],
      [protocol |-> Num(760), max |-> Num(100), online |-> Num(5), favicon |-> Num(7)],
      [protocol |-> Scalar("missing"), max |-> Scalar("missing"),
       online |-> Scalar("missing"), favicon |-> Scalar("missing")] }

NoOthers ==
    [protocol |-> Scalar("missing"), max |-> Scalar("missing"),
     online |-> Scalar("missing"), favicon |-> Scalar("missing")]

NoDesc == [t |-> "missing", s |-> <<>>, text |-> Scalar("missing"), extra |-> NoExtra]

\* kind: "malformed" (no JSON text), "scalar" (a JSON array, string, number
\* or boolean), "null", "object"
NonObject(k) == [kind |-> k, desc |-> NoDesc, others |-> NoOthers]
Object(d, o) == [kind |-> "object", desc |-> d, others |-> o]

Malformed == NonObject("malformed")

Docs ==
    {NonObject(k) : k \in {"malformed", "scalar", "null"}}
        \cup {Object(d, o) : d \in DescVs, o \in Others}

\* ------------------------------------------------------------------------
\* json.Unmarshal into ServerStatus, and the fallback
\* ------------------------------------------------------------------------

\* var status ServerStatus
ZeroStatus ==
    [protocol |-> 0, max |-> 0, online |-> 0, text |-> <<>>, extra |-> <<>>,
     favicon |-> <<>>]

\* an int field: a JSON number is stored, a string is a type error
IntField(v) == IF v.t = "number" THEN v.n ELSE 0
\* a string field
StringField(v) == IF v.t = "string" THEN v.s ELSE <<>>
\* whether the value fails to decode into an int / a string field
BadInt(v) == v.t \notin {"missing", "null", "number"}
BadString(v) == v.t \notin {"missing", "null", "string"}

\* Description.Extra after the decoder has run over the value of "extra": one
\* element per array entry, left zero where the entry is not an object
ExtraField(ev) ==
    IF ev.t = "array"
    THEN [k \in 1..Len(ev.a) |-> [text |-> IF ev.a[k].t = "object" THEN ev.a[k].s ELSE <<>>]]
    ELSE <<>>
BadExtra(ev) ==
    \/ ev.t = "string"
    \/ ev.t = "array" /\ \E k \in 1..Len(ev.a) : ev.a[k].t # "object"

\* whether the value of "description" fails to decode into the struct
BadDesc(d) ==
    \/ d.t \in {"string", "number", "array"}
    \/ d.t = "object" /\ (BadString(d.text) \/ BadExtra(d.extra))

\* json.Unmarshal(rawResponse, &status): the decoder stores every field that
\* fits, skips the others, and reports the first mismatch at the end
UnmarshalStatus(doc) ==
    IF doc.kind = "malformed" THEN [status |-> ZeroStatus, err |-> "syntax"]
    ELSE IF doc.kind = "scalar" THEN [status |-> ZeroStatus, err |-> "type"]
    ELSE IF doc.kind = "null" THEN [status |-> ZeroStatus, err |-> "nil"]
    ELSE [status |->
            [protocol |-> IntField(doc.others.protocol),
             max |-> IntField(doc.others.max),
             online |-> IntField(doc.others.online),
             text |-> IF doc.desc.t = "object" THEN StringField(doc.desc.text) ELSE <<>>,
             extra |-> IF doc.desc.t = "object" THEN ExtraField(doc.desc.extra) ELSE <<>>,
             favicon |-> StringField(doc.others.favicon)],
          err |-> IF \/ BadDesc(doc.desc)
                     \/ BadInt(doc.others.protocol) \/ BadInt(doc.others.max)
                     \/ BadInt(doc.others.online) \/ BadString(doc.others.favicon)
                  THEN "type" ELSE "nil"]

\* json.Unmarshal(rawResponse, &fallbackStatus): Description interface{}
UnmarshalFallback(doc) ==
    IF doc.kind = "malformed" THEN [desc |-> NoDesc, err |-> "syntax"]
    ELSE IF doc.kind = "scalar" THEN [desc |-> NoDesc, err |-> "type"]
    ELSE [desc |-> doc.desc, err |-> "nil"]

\* mutant: the case of a bare string is missing from the switch
FallbackText_m(status, desc) ==
    IF desc.t = "object" /\ desc.text.t = "string"
    THEN [status EXCEPT !.text = desc.text.s]
    ELSE status
\* the switch on fallbackStatus.Description: only Description.Text is assigned
FallbackText(status, desc) ==
    IF desc.t = "string" THEN [status EXCEPT !.text = desc.s]
    ELSE IF desc.t = "object" /\ desc.text.t = "string"
         THEN [status EXCEPT !.text = desc.text.s]
         ELSE status

\* unescapeUnicode over Description.Text and every Description.Extra[i].Text
UnescapeStatus(status) ==
    [status EXCEPT
        !.text = unescapeUnicode(status.text),
        !.extra = [k \in 1..Len(status.extra) |->
                      [text |-> unescapeUnicode(status.extra[k].text)]]]

\* GetServerStatus from json.Unmarshal to the return: status is <<>> for nil
DecodeResponse(doc) ==
    LET p == UnmarshalStatus(doc)
        f == UnmarshalFallback(doc)
    IN  IF p.err # "nil" /\ f.err # "nil"
        THEN [status |-> <<>>, err |-> "decode"]
        ELSE [status |-> <<UnescapeStatus(IF p.err # "nil"
                                          THEN FallbackText(p.status, f.desc)
                                          ELSE p.status)>>,
              err |-> "nil"]

\* ------------------------------------------------------------------------
\* What the network may do
\* ------------------------------------------------------------------------

\* most IP addresses net.LookupIP returns
MaxIPs == 2
\* most payload bytes the server sends after the response header
MaxBody == 3

\* the addresses GetServerStatus is called with: h, h:1, h:h, h:h:1
SpecAddresses ==
    { <<ChLetterH>>, <<ChLetterH, ChColon, ChDigit1>>,
      <<ChLetterH, ChColon, ChLetterH>>,
      <<ChLetterH, ChColon, ChLetterH, ChColon, ChDigit1>> }

\* net.LookupIP: an error, or 0..MaxIPs addresses
LookupIPResults ==
    {[err |-> "no such host", ips |-> <<>>]}
        \cup {[err |-> "nil", ips |-> [k \in 1..n |-> k]] : n \in 0..MaxIPs}

\* a varint of more than five bytes
TooLong == <<128, 128, 128, 128, 128>>

\* the three fields of a response header, as the server encodes them
LengthFields == {<<0>>, <<5>>, TooLong}
PacketIDFields == {<<0>>, <<1>>, <<128, 0>>, TooLong}
JSONLengthFields ==
    {WriteVarInt(<<>>, n) : n \in 0..(MaxBody + 1)}
        \cup {WriteVarInt(<<>>, -1), WriteVarInt(<<>>, 2147483647), TooLong}

\* the documents a payload of the protocol run denotes
SpecDocs ==
    { Malformed, NonObject("scalar"), NonObject("null") }
        \cup {Object(d, o) :
                d \in { [NoDesc EXCEPT !.t = "string", !.s = TxtHi],
                        [NoDesc EXCEPT !.t = "object", !.text = Str(TxtEsc)] },
                o \in { [NoOthers EXCEPT !.max = Num(100), !.online = Num(5)],
                        [NoOthers EXCEPT !.max = Num(-1), !.online = Num(-5)] }}

\* a header the server stops in the middle of
TruncatedHeaders ==
    {<<>>, <<128>>}
        \cup {l \o t : l \in LengthFields \ {TooLong}, t \in {<<>>, <<128>>}}
        \cup {l \o i \o t : l \in LengthFields \ {TooLong}, i \in {<<0>>}, t \in {<<>>, <<128>>}}

\* What the server sends: hdr, the bytes of the header; then bodyLen bytes,
\* which denote doc when read in full (a JSON text is at least two bytes, and
\* a cut text is no JSON text); then it closes ("eof") or stays silent
\* ("stall").
Responses ==
    {[hdr |-> h, bodyLen |-> 0, doc |-> Malformed, end |-> e] :
        h \in TruncatedHeaders, e \in {"eof", "stall"}}
    \cup
    {r \in [hdr : {l \o i \o j : l \in LengthFields, i \in PacketIDFields,
                                  j \in JSONLengthFields},
            bodyLen : 0..MaxBody, doc : SpecDocs, end : {"eof", "stall"}] :
        r.bodyLen >= 2 \/ r.doc = Malformed}

NoStream == [hdr |-> <<>>, bodyLen |-> 0, doc |-> Malformed, end |-> "eof"]

\* ------------------------------------------------------------------------
\* GetServerStatus, step by step
\* ------------------------------------------------------------------------

Op(name, arg) == [op |-> name, arg |-> arg]

\* a step of GetServerStatus leaves the other components alone
QOnly == UNCHANGED <<vvars, uvars, dvars, hvars, rvars, cvars>>

\* the steps at which the call waits on the connection
IOSteps ==
    {"handshake", "statusRequest", "readLength", "readPacketID", "readJSONLength",
     "readJSON"}

Terminal == {"done", "failed", "panicked"}

\* mutant: the connection is left open when the call returns an error
Return_m(st, e, lg) ==
    /\ retStatus' = st
    /\ retErr' = e
    /\ pc' = IF e = "nil" THEN "done" ELSE "failed"
    /\ conn' = IF conn = "open" /\ e = "nil" THEN "closed" ELSE conn
    /\ log' = IF conn = "open" /\ e = "nil" THEN Append(lg, Op("close", 0)) ELSE lg
\* a return statement of GetServerStatus: the deferred conn.Close() runs when
\* the connection was opened. lg is the log up to the return.
Return(st, e, lg) ==
    /\ retStatus' = st
    /\ retErr' = e
    /\ pc' = IF e = "nil" THEN "done" ELSE "failed"
    /\ conn' = IF conn = "open" THEN "closed" ELSE conn
    /\ log' = IF conn = "open" THEN Append(lg, Op("close", 0)) ELSE lg

\* host, portStr after net.SplitHostPort and the err != nil branch
ParsedAddress(a) ==
    LET r == SplitHostPort(a)
    IN  IF r.err # "nil" THEN [host |-> a, portStr |-> DefaultPortStr]
        ELSE [host |-> r.host, portStr |-> r.port]

\* net.SplitHostPort, the default port, net.LookupPort
ParseAddress ==
    /\ pc = "start"
    /\ host' = ParsedAddress(address).host
    /\ portStr' = ParsedAddress(address).portStr
    /\ LET r == LookupPort(ParsedAddress(address).portStr)
       IN  IF r.err # "nil"
           THEN /\ Return(<<>>, "port", log)
                /\ UNCHANGED port
           ELSE /\ port' = r.port
                /\ pc' = "lookupIP"
                /\ UNCHANGED <<conn, log, retStatus, retErr>>
    /\ UNCHANGED <<address, ips, deadline, wire, stream, rpos, jsonLength, payload>>
    /\ QOnly

\* net.LookupIP(host) returns
LookupIP ==
    /\ pc = "lookupIP"
    /\ \E r \in LookupIPResults :
          IF r.err # "nil" \/ Len(r.ips) = 0
          THEN /\ Return(<<>>, "resolve", Append(log, Op("lookupIP", 0)))
               /\ UNCHANGED ips
          ELSE /\ ips' = r.ips
               /\ pc' = "dial"
               /\ log' = Append(log, Op("lookupIP", 0))
               /\ UNCHANGED <<conn, retStatus, retErr>>
    /\ UNCHANGED <<address, host, portStr, port, deadline, wire, stream, rpos,
                   jsonLength, payload>>
    /\ QOnly

\* mutant: a failed connect falls back to the next address
Dial_m ==
    /\ pc = "dial"
    /\ \E ok \in BOOLEAN :
          IF ok
          THEN /\ conn' = "open"
               /\ deadline' = TRUE
               /\ pc' = "handshake"
               /\ log' = Append(log, Op("dial", ips[1]))
               /\ UNCHANGED <<ips, retStatus, retErr>>
          ELSE IF Len(ips) > 1
          THEN /\ ips' = Tail(ips)
               /\ log' = Append(log, Op("dial", ips[1]))
               /\ UNCHANGED <<pc, conn, deadline, retStatus, retErr>>
          ELSE /\ Return(<<>>, "connect", Append(log, Op("dial", ips[1])))
               /\ UNCHANGED <<ips, deadline>>
    /\ UNCHANGED <<address, host, portStr, port, wire, stream, rpos,
                   jsonLength, payload>>
    /\ QOnly
\* net.DialTimeout to ips[0] returns; on success conn.SetDeadline arms the
\* deadline
Dial ==
    /\ pc = "dial"
    /\ \E ok \in BOOLEAN :
          IF ok
          THEN /\ conn' = "open"
               /\ deadline' = TRUE
               /\ pc' = "handshake"
               /\ log' = Append(log, Op("dial", ips[1]))
               /\ UNCHANGED <<retStatus, retErr>>
          ELSE /\ Return(<<>>, "connect", Append(log, Op("dial", ips[1])))
               /\ UNCHANGED deadline
    /\ UNCHANGED <<address, host, portStr, port, ips, wire, stream, rpos,
                   jsonLength, payload>>
    /\ QOnly

\* the 5 seconds of net.DialTimeout pass
DialTimeout ==
    /\ pc = "dial"
    /\ Return(<<>>, "connect", Append(log, Op("dial", ips[1])))
    /\ UNCHANGED <<address, host, portStr, port, ips, deadline, wire, stream, rpos,
                   jsonLength, payload>>
    /\ QOnly

\* sendHandshakePacket: one conn.Write, which succeeds or fails
SendHandshake ==
    /\ pc = "handshake"
    /\ wire' = Append(wire, sendPacket(HandshakeBody(host, port)))
    /\ \E ok \in BOOLEAN :
          IF ok
          THEN /\ pc' = "statusRequest"
               /\ log' = Append(log, Op("writeHandshake", 0))
               /\ UNCHANGED <<conn, retStatus, retErr>>
          ELSE Return(<<>>, "handshake", Append(log, Op("writeHandshake", 0)))
    /\ UNCHANGED <<address, host, portStr, port, ips, deadline, stream, rpos,
                   jsonLength, payload>>
    /\ QOnly

\* sendStatusRequestPacket: one conn.Write; the server answers a request
\* that reached it
SendStatusRequest ==
    /\ pc = "statusRequest"
    /\ wire' = Append(wire, sendPacket(StatusRequestBody))
    /\ \E ok \in BOOLEAN :
          IF ok
          THEN /\ pc' = "readLength"
               /\ log' = Append(log, Op("writeStatusRequest", 0))
               /\ \E resp \in Responses : stream' = resp
               /\ UNCHANGED <<conn, retStatus, retErr>>
          ELSE /\ Return(<<>>, "statusRequest", Append(log, Op("writeStatusRequest", 0)))
               /\ UNCHANGED stream
    /\ UNCHANGED <<address, host, portStr, port, ips, deadline, rpos, jsonLength,
                   payload>>
    /\ QOnly

\* the header bytes the reader has not consumed yet
Unread == SubSeq(stream.hdr, rpos + 1, Len(stream.hdr))

\* A Read that finds no byte returns an error when the server has closed, and
\* waits (until the deadline) when the server stays silent.
Blocked(r) == r.err = "read" /\ stream.end = "stall"

\* readAndParseResponse: the packet length is read and dropped
ReadLength ==
    /\ pc = "readLength"
    /\ LET r == readVarInt(Unread)
       IN  /\ ~Blocked(r)
           /\ rpos' = rpos + r.n
           /\ IF r.err # "nil"
              THEN Return(<<>>, "read", Append(log, Op("readLength", 0)))
              ELSE /\ pc' = "readPacketID"
                   /\ log' = Append(log, Op("readLength", 0))
                   /\ UNCHANGED <<conn, retStatus, retErr>>
    /\ UNCHANGED <<address, host, portStr, port, ips, deadline, wire, stream,
                   jsonLength, payload>>
    /\ QOnly

\* readAndParseResponse: the packet ID is read and must be 0x00
ReadPacketID ==
    /\ pc = "readPacketID"
    /\ LET r == readVarInt(Unread)
       IN  /\ ~Blocked(r)
           /\ rpos' = rpos + r.n
           /\ IF r.err # "nil"
              THEN Return(<<>>, "read", Append(log, Op("readPacketID", 0)))
              ELSE IF r.val # 0
              THEN Return(<<>>, "packetID", Append(log, Op("readPacketID", 0)))
              ELSE /\ pc' = "readJSONLength"
                   /\ log' = Append(log, Op("readPacketID", 0))
                   /\ UNCHANGED <<conn, retStatus, retErr>>
    /\ UNCHANGED <<address, host, portStr, port, ips, deadline, wire, stream,
                   jsonLength, payload>>
    /\ QOnly

\* readAndParseResponse: the JSON length is read
ReadJSONLength ==
    /\ pc = "readJSONLength"
    /\ LET r == readVarInt(Unread)
       IN  /\ ~Blocked(r)
           /\ rpos' = rpos + r.n
           /\ IF r.err # "nil"
              THEN /\ Return(<<>>, "read", Append(log, Op("readJSONLength", 0)))
                   /\ UNCHANGED jsonLength
              ELSE /\ jsonLength' = r.val
                   /\ pc' = "readJSON"
                   /\ log' = Append(log, Op("readJSONLength", 0))
                   /\ UNCHANGED <<conn, retStatus, retErr>>
    /\ UNCHANGED <<address, host, portStr, port, ips, deadline, wire, stream, payload>>
    /\ QOnly

\* readAndParseResponse: make([]byte, jsonLength) and io.ReadFull. make panics
\* on a negative length; the deferred conn.Close() runs while the panic unwinds
\* and nothing is returned.
ReadJSON ==
    /\ pc = "readJSON"
    /\ IF jsonLength < 0
       THEN /\ pc' = "panicked"
            /\ conn' = "closed"
            /\ log' = Append(log, Op("close", 0))
            /\ UNCHANGED <<payload, retStatus, retErr>>
       ELSE IF jsonLength > stream.bodyLen
       THEN /\ stream.end # "stall"
            /\ Return(<<>>, "read", Append(log, Op("readJSON", 0)))
            /\ UNCHANGED payload
       ELSE /\ payload' = IF jsonLength = stream.bodyLen THEN stream.doc ELSE Malformed
            /\ pc' = "decode"
            /\ log' = Append(log, Op("readJSON", 0))
            /\ UNCHANGED <<conn, retStatus, retErr>>
    /\ UNCHANGED <<address, host, portStr, port, ips, deadline, wire, stream, rpos,
                   jsonLength>>
    /\ QOnly

\* json.Unmarshal, the fallback, unescapeUnicode, return
Decode ==
    /\ pc = "decode"
    /\ LET r == DecodeResponse(payload)
       IN  Return(r.status, r.err, Append(log, Op("unmarshal", 0)))
    /\ UNCHANGED <<address, host, portStr, port, ips, deadline, wire, stream, rpos,
                   jsonLength, payload>>
    /\ QOnly

\* the operation the call is waiting in at an IO step
PendingOp ==
    IF pc = "handshake" THEN "writeHandshake"
    ELSE IF pc = "statusRequest" THEN "writeStatusRequest"
    ELSE pc

\* the 10 seconds of conn.SetDeadline pass: the pending Write or Read returns
\* a timeout error
DeadlineExpires ==
    /\ pc \in IOSteps
    /\ deadline
    /\ wire' = IF pc = "handshake" THEN Append(wire, sendPacket(HandshakeBody(host, port)))
               ELSE IF pc = "statusRequest" THEN Append(wire, sendPacket(StatusRequestBody))
               ELSE wire
    /\ Return(<<>>, "timeout", Append(log, Op(PendingOp, 0)))
    /\ UNCHANGED <<address, host, portStr, port, ips, deadline, stream, rpos,
                   jsonLength, payload>>
    /\ QOnly

\* ------------------------------------------------------------------------
\* The protocol run
\* ------------------------------------------------------------------------

\* the locals of a call before its first step
QueryLocals ==
    /\ host = <<>> /\ portStr = <<>> /\ port = 0
    /\ ips = <<>>
    /\ conn = "none"
    /\ deadline = FALSE
    /\ log = <<>>
    /\ wire = <<>>
    /\ stream = NoStream
    /\ rpos = 0
    /\ jsonLength = 0
    /\ payload = Malformed
    /\ retStatus = <<>>
    /\ retErr = "nil"


\* the components at rest, for the runs that do not exercise them
NoRes == [val |-> 0, err |-> "nil", n |-> 0]
QIdle == pc = "idle" /\ address = <<>> /\ QueryLocals
VIdle ==
    /\ v_pc = "idle" /\ v_val = 0 /\ v_prefix = <<>> /\ v_tail = <<>>
    /\ v_buf = <<>> /\ v_res = NoRes
UIdle == u_pc = "idle" /\ u_in = <<>> /\ u_out = <<>>
DIdle == d_pc = "idle" /\ d_doc = Malformed /\ d_status = <<>> /\ d_err = "nil"
NoOutcome == [status |-> <<>>, err |-> "nil", panic |-> FALSE]
HIdle ==
    /\ h_pc = "idle" /\ h_address = <<>> /\ h_coreCalls = 0 /\ h_core = NoOutcome
    /\ h_responses = <<>> /\ h_served = <<>>
NoRead == [data |-> <<>>, err |-> "nil", panic |-> FALSE]
RIdle == r_pc = "idle" /\ r_stream = <<>> /\ r_manual = NoRead /\ r_buffered = NoRead
CIdle == c_env = <<>> /\ c_calls = <<>> /\ c_conns = <<>>

\* GetServerStatus is called with an address
Init ==
    /\ pc = "start"
    /\ address \in SpecAddresses
    /\ QueryLocals
    /\ VIdle /\ UIdle /\ DIdle /\ HIdle /\ RIdle /\ CIdle

Next ==
    \/ ParseAddress
    \/ LookupIP
    \/ Dial
    \/ DialTimeout
    \/ SendHandshake
    \/ SendStatusRequest
    \/ ReadLength
    \/ ReadPacketID
    \/ ReadJSONLength
    \/ ReadJSON
    \/ Decode
    \/ DeadlineExpires

Spec == Init /\ [][Next]_vars

\* ------------------------------------------------------------------------
\* Address resolution alone, over every short address
\* ------------------------------------------------------------------------

\* longest address
MaxAddrLen == 4

AddrChars == {ChLetterH, ChDigit1, ChColon, ChLBracket, ChRBracket}

InitResolve ==
    /\ pc = "start"
    /\ address \in SeqsUpTo(AddrChars, MaxAddrLen)
    /\ QueryLocals
    /\ VIdle /\ UIdle /\ DIdle /\ HIdle /\ RIdle /\ CIdle

NextResolve == ParseAddress

SpecResolve == InitResolve /\ [][NextResolve]_vars

\* ------------------------------------------------------------------------
\* The varint codec alone
\* ------------------------------------------------------------------------

\* the values at which the encoding changes length, and the ends of int32
Borders ==
    { 127, 128, 255, 256, 16383, 16384, 25565, 65535, 2097151, 2097152,
      268435455, 268435456, 2147483646, 2147483647,
      -128, -129, -16384, -16385, -268435456, -268435457,
      -2147483647, -2147483647 - 1 }

Int32Samples == ((0 - MaxSmall)..MaxSmall) \cup Borders

VOnly == UNCHANGED <<qvars, uvars, dvars, hvars, rvars, cvars>>

InitVarInt ==
    /\ v_pc = "encode"
    /\ v_val \in Int32Samples
    /\ v_prefix \in {<<>>, <<7, 200>>}
    /\ v_tail \in {<<>>, <<0>>, <<255, 1>>}
    /\ v_buf = v_prefix
    /\ v_res = NoRes
    /\ QIdle /\ UIdle /\ DIdle /\ HIdle /\ RIdle /\ CIdle

\* pb.WriteVarInt(v_val) on a buffer that holds v_prefix
VEncode ==
    /\ v_pc = "encode"
    /\ v_buf' = WriteVarInt(v_buf, v_val)
    /\ v_pc' = "decode"
    /\ UNCHANGED <<v_val, v_prefix, v_tail, v_res>>
    /\ VOnly

\* the bytes WriteVarInt appended
Appended == SubSeq(v_buf, Len(v_prefix) + 1, Len(v_buf))

\* readVarInt on a reader that delivers the appended bytes, then v_tail
VDecode ==
    /\ v_pc = "decode"
    /\ v_res' = readVarInt(Appended \o v_tail)
    /\ v_pc' = "done"
    /\ UNCHANGED <<v_val, v_prefix, v_tail, v_buf>>
    /\ VOnly

NextVarInt == VEncode \/ VDecode

SpecVarInt == InitVarInt /\ [][NextVarInt]_vars

\* ------------------------------------------------------------------------
\* readVarInt alone, over every short byte stream
\* ------------------------------------------------------------------------

\* longest byte stream a reader delivers
MaxStream == 6

\* the bytes of the streams: with and without the high bit, all or none of
\* the low bits set
StreamBytes == {0, 127, 128, 255}

InitReadVarInt ==
    /\ v_pc = "read"
    /\ v_val = 0 /\ v_prefix = <<>> /\ v_buf = <<>>
    /\ v_tail \in SeqsUpTo(StreamBytes, MaxStream)
    /\ v_res = NoRes
    /\ QIdle /\ UIdle /\ DIdle /\ HIdle /\ RIdle /\ CIdle

\* readVarInt on a reader that delivers v_tail and then fails
VRead ==
    /\ v_pc = "read"
    /\ v_res' = readVarInt(v_tail)
    /\ v_pc' = "returned"
    /\ UNCHANGED <<v_val, v_prefix, v_tail, v_buf>>
    /\ VOnly

NextReadVarInt == VRead

SpecReadVarInt == InitReadVarInt /\ [][NextReadVarInt]_vars

\* ------------------------------------------------------------------------
\* unescapeUnicode alone
\* ------------------------------------------------------------------------

\* the pieces input texts are made of: \ u 005c 0041 +041 z
UParts ==
    << <<ChBackslash>>, <<ChU>>, <<48, 48, 53, 99>>, <<48, 48, 52, 49>>,
       <<ChPlus, 48, 52, 49>>, <<122>> >>

RECURSIVE Flatten(_)
Flatten(ss) == IF Len(ss) = 0 THEN <<>> ELSE Head(ss) \o Flatten(Tail(ss))

UStrings ==
    UNION {{Flatten([k \in 1..n |-> UParts[f[k]]]) : f \in [1..n -> 1..Len(UParts)]} :
            n \in 0..MaxParts}

UOnly == UNCHANGED <<qvars, vvars, dvars, hvars, rvars, cvars>>

InitUnescape ==
    /\ u_pc = "call"
    /\ u_in \in UStrings
    /\ u_out = <<>>
    /\ QIdle /\ VIdle /\ DIdle /\ HIdle /\ RIdle /\ CIdle

Unescape ==
    /\ u_pc = "call"
    /\ u_out' = unescapeUnicode(u_in)
    /\ u_pc' = "done"
    /\ UNCHANGED u_in
    /\ UOnly

NextUnescape == Unescape

SpecUnescape == InitUnescape /\ [][NextUnescape]_vars

\* ------------------------------------------------------------------------
\* The decoding of a payload alone, over every document
\* ------------------------------------------------------------------------

DOnly == UNCHANGED <<qvars, vvars, uvars, hvars, rvars, cvars>>

InitDecode ==
    /\ d_pc = "call"
    /\ d_doc \in Docs
    /\ d_status = <<>>
    /\ d_err = "nil"
    /\ QIdle /\ VIdle /\ UIdle /\ HIdle /\ RIdle /\ CIdle

DecodePayload ==
    /\ d_pc = "call"
    /\ d_status' = DecodeResponse(d_doc).status
    /\ d_err' = DecodeResponse(d_doc).err
    /\ d_pc' = "done"
    /\ UNCHANGED d_doc
    /\ DOnly

NextDecode == DecodePayload

SpecDecode == InitDecode /\ [][NextDecode]_vars

\* ------------------------------------------------------------------------
\* The HTTP handler
\* ------------------------------------------------------------------------

\* requests served in one run
MaxRequests == 2

StatusBadRequest == 400
StatusInternalServerError == 500
StatusOK == 200

\* the values of the query parameter "address": absent or empty, h, h:1
HAddresses == {<<>>, <<ChLetterH>>, <<ChLetterH, ChColon, ChDigit1>>}

\* what mcstatus.GetServerStatus does with a call: it returns a status, it
\* returns an error, or it panics
CoreOutcomes ==
    {[status |-> <<st>>, err |-> "nil", panic |-> FALSE] :
        st \in {ZeroStatus, [ZeroStatus EXCEPT !.max = 100, !.online = 5, !.text = TxtHi]}}
    \cup {[status |-> <<>>, err |-> e, panic |-> FALSE] : e \in {"connect", "decode"}}
    \cup {[status |-> <<>>, err |-> "nil", panic |-> TRUE]}

\* c.JSON(code, ..): body is gin.H{"error": error} or the status
Response(code, error, status) == [code |-> code, error |-> error, status |-> status]

\* the request as it is filed once it is over
Served(a, calls, outcome, responses) ==
    [address |-> a, coreCalls |-> calls, core |-> outcome, responses |-> responses]

HOnly == UNCHANGED <<qvars, vvars, uvars, dvars, rvars, cvars>>

InitHandler ==
    /\ h_pc = "idle" /\ h_address = <<>> /\ h_coreCalls = 0 /\ h_core = NoOutcome
    /\ h_responses = <<>> /\ h_served = <<>>
    /\ QIdle /\ VIdle /\ UIdle /\ DIdle /\ RIdle /\ CIdle

\* mutant: the empty address is not rejected
EmptyAddress_m(a) == FALSE
\* if address == ""
EmptyAddress(a) == a = <<>>

\* a request arrives: the handler answers 400 or calls the core
HandleRequest ==
    /\ h_pc = "idle"
    /\ Len(h_served) < MaxRequests
    /\ \E a \in HAddresses :
          IF EmptyAddress(a)
          THEN /\ h_served' = Append(h_served,
                     Served(a, 0, NoOutcome,
                            <<Response(StatusBadRequest, "empty address", <<>>)>>))
               /\ UNCHANGED <<h_pc, h_address, h_coreCalls, h_core, h_responses>>
          ELSE /\ h_pc' = "core"
               /\ h_address' = a
               /\ h_coreCalls' = 1
               /\ h_core' = NoOutcome
               /\ h_responses' = <<>>
               /\ UNCHANGED h_served
    /\ HOnly

\* the core returns and the handler answers 500 or 200; when the core panics
\* the handler writes nothing and the Recovery middleware of gin.Default()
\* answers 500
CoreReturns ==
    /\ h_pc = "core"
    /\ \E o \in CoreOutcomes :
          h_served' = Append(h_served,
              Served(h_address, h_coreCalls, o,
                     IF o.panic THEN <<Response(StatusInternalServerError, "", <<>>)>>
                     ELSE IF o.err # "nil"
                          THEN <<Response(StatusInternalServerError, o.err, <<>>)>>
                          ELSE <<Response(StatusOK, "", o.status)>>))
    /\ h_pc' = "idle"
    /\ h_address' = <<>>
    /\ h_coreCalls' = 0
    /\ h_core' = NoOutcome
    /\ h_responses' = <<>>
    /\ HOnly

NextHandler == HandleRequest \/ CoreReturns

SpecHandler == InitHandler /\ [][NextHandler]_vars

\* ------------------------------------------------------------------------
\* readAndParseResponse: the two implementations on one byte stream
\* ------------------------------------------------------------------------

\* what readAndParseResponse ends with: the payload, an error, or a panic
ReadOK(data) == [data |-> data, err |-> "nil", panic |-> FALSE]
ReadErr(e) == [data |-> <<>>, err |-> e, panic |-> FALSE]
ReadPanic == [data |-> <<>>, err |-> "nil", panic |-> TRUE]

\* the bytes a reader still delivers after n of them were consumed
Drop(s, n) == SubSeq(s, n + 1, Len(s))

\* internal/service/server.go: three readVarInt, make, io.ReadFull, on a
\* connection that delivers s and then fails. make panics on a negative
\* length; a large one is taken to be allocated.
readAndParseResponse(s) ==
    LET l == readVarInt(s)
        i == readVarInt(Drop(s, l.n))
        j == readVarInt(Drop(s, l.n + i.n))
        rest == Drop(s, l.n + i.n + j.n)
    IN  IF l.err # "nil" THEN ReadErr("read")
        ELSE IF i.err # "nil" THEN ReadErr("read")
        ELSE IF i.val # 0 THEN ReadErr("packetID")
        ELSE IF j.err # "nil" THEN ReadErr("read")
        ELSE IF j.val < 0 THEN ReadPanic
        ELSE IF j.val > Len(rest) THEN ReadErr("read")
        ELSE ReadOK(SubSeq(rest, 1, j.val))

\* a uint64 as far as the code looks at it: lo is the number its bits 0..30
\* denote, hi tells whether one of the bits 31..63 is set
Zero64 == [lo |-> 0, hi |-> FALSE]

\* x | uint64(g) << s for seven bits g and a shift s that is a multiple of 7
OrShl64(x, g, s) ==
    IF s <= 21 THEN [x EXCEPT !.lo = @ + g * (2^s)]
    ELSE IF s = 28 THEN [lo |-> x.lo + (g % 8) * (2^28), hi |-> x.hi \/ g >= 8]
    ELSE [x EXCEPT !.hi = @ \/ g > 0]

\* binary.MaxVarintLen64
MaxVarintLen64 == 10

RECURSIVE ReadUvarintLoop(_, _, _, _)
\* the loop of binary.ReadUvarint from round i on
ReadUvarintLoop(r, i, x, s) ==
    IF i >= MaxVarintLen64 THEN [val |-> x, err |-> "overflow", n |-> i]
    ELSE IF i + 1 > Len(r) THEN [val |-> x, err |-> "read", n |-> i]
    ELSE LET b == r[i + 1]
         IN  IF b < 128
             THEN (IF i = MaxVarintLen64 - 1 /\ b > 1
                   THEN [val |-> x, err |-> "overflow", n |-> i + 1]
                   ELSE [val |-> OrShl64(x, b, s), err |-> "nil", n |-> i + 1])
             ELSE ReadUvarintLoop(r, i + 1, OrShl64(x, b % 128, s), s + 7)

\* binary.ReadUvarint(reader)
ReadUvarint(r) == ReadUvarintLoop(r, 0, Zero64, 0)

\* the second implementation: bufio.NewReader, three binary.ReadUvarint, make,
\* io.ReadFull; the outcomes it can have. make([]byte, n) for n of 2^31 or
\* more panics where n does not fit an int or cannot be allocated at all, and
\* allocates otherwise, after which the stream fails to fill the slice.
readAndParseResponseBuffered(s) ==
    LET l == ReadUvarint(s)
        i == ReadUvarint(Drop(s, l.n))
        j == ReadUvarint(Drop(s, l.n + i.n))
        rest == Drop(s, l.n + i.n + j.n)
    IN  IF l.err # "nil" THEN {ReadErr("read")}
        ELSE IF i.err # "nil" THEN {ReadErr("read")}
        ELSE IF i.val # Zero64 THEN {ReadErr("packetID")}
        ELSE IF j.err # "nil" THEN {ReadErr("read")}
        ELSE IF j.val.hi THEN {ReadPanic, ReadErr("read")}
        ELSE IF j.val.lo > Len(rest) THEN {ReadErr("read")}
        ELSE {ReadOK(SubSeq(rest, 1, j.val.lo))}

\* the value 0 in six bytes, and the value 2^32 in five
SixByteZero == <<128, 128, 128, 128, 128, 0>>
WideID == <<128, 128, 128, 128, 16>>

\* the bytes { and } of a payload
BodyBytes == {123, 125}

\* what a server may send: the three fields and a body, cut anywhere
ByteStreams ==
    UNION {{SubSeq(s, 1, n) : n \in 0..Len(s)} :
            s \in {l \o i \o j \o b :
                      l \in LengthFields \cup {SixByteZero},
                      i \in PacketIDFields \cup {WideID},
                      j \in JSONLengthFields,
                      b \in SeqsUpTo(BodyBytes, MaxBody)}}

ROnly == UNCHANGED <<qvars, vvars, uvars, dvars, hvars, cvars>>

InitResponse ==
    /\ r_pc = "call"
    /\ r_stream \in ByteStreams
    /\ r_manual = NoRead /\ r_buffered = NoRead
    /\ QIdle /\ VIdle /\ UIdle /\ DIdle /\ HIdle /\ CIdle

\* readAndParseResponse of internal/service/server.go on the stream
ReadManual ==
    /\ r_pc = "call"
    /\ r_manual' = readAndParseResponse(r_stream)
    /\ r_pc' = "manual"
    /\ UNCHANGED <<r_stream, r_buffered>>
    /\ ROnly

\* readAndParseResponse of the second implementation on the same stream
ReadBuffered ==
    /\ r_pc = "manual"
    /\ r_buffered' \in readAndParseResponseBuffered(r_stream)
    /\ r_pc' = "done"
    /\ UNCHANGED <<r_stream, r_manual>>
    /\ ROnly

NextResponse == ReadManual \/ ReadBuffered

SpecResponse == InitResponse /\ [][NextResponse]_vars

\* ------------------------------------------------------------------------
\* Several calls of GetServerStatus at once
\* ------------------------------------------------------------------------
\* Every call runs GetServerStatus on its own goroutine. All it works on are
\* its parameters and locals (c_calls[i]) and the net.Conn it got from
\* net.DialTimeout; the package declares no variable.

\* most calls in flight
MaxCalls == 2

\* {"description":"Hi"}
TxtJSONHi ==
    <<123, 34, 100, 101, 115, 99, 114, 105, 112, 116, 105, 111, 110, 34, 58, 34,
      72, 105, 34, 125>>

\* the document a payload denotes: {"description":"Hi"} is the JSON text
\* among the payloads of these runs, the empty payload is none
ParseJSON(data) ==
    IF data = TxtJSONHi
    THEN Object([NoDesc EXCEPT !.t = "string", !.s = TxtHi], NoOthers)
    ELSE Malformed

\* what the network does for one call: the number of addresses net.LookupIP
\* returns (0: it fails), whether the connect and the two writes succeed,
\* and the bytes the server answers with before it closes
Behaviour(a, n, d, h, r, s) ==
    [address |-> a, ips |-> n, dial |-> d, handshake |-> h, request |-> r, stream |-> s]

CBehaviours ==
    { Behaviour(<<ChLetterH>>, 0, FALSE, FALSE, FALSE, <<>>),
      Behaviour(<<ChLetterH, ChColon, ChDigit1>>, 2, FALSE, FALSE, FALSE, <<>>),
      Behaviour(<<ChLetterH>>, 1, TRUE, TRUE, FALSE, <<>>),
      Behaviour(<<ChLetterH, ChColon, ChDigit1>>, 1, TRUE, TRUE, TRUE, <<1, 1>>),
      Behaviour(<<ChLetterH, ChColon, ChDigit1>>, 2, TRUE, TRUE, TRUE,
                <<22, 0, 20>> \o TxtJSONHi),
      Behaviour(<<ChLetterH>>, 1, TRUE, TRUE, TRUE, <<0, 0, 255, 255, 255, 255, 15>>) }

\* the locals of a call before its first step; conn 0 is no connection
NewCall == [pc |-> "start", host |-> <<>>, port |-> 0, conn |-> 0, status |-> <<>>,
            err |-> "nil"]

\* mutant: the connection is kept in a variable of the package
ConnOf_m(i) == Len(c_conns)
\* the local conn of call i
ConnOf(i) == c_calls[i].conn

\* an operation of call i on a connection
ConnOp(i, name, bytes) == [by |-> i, op |-> name, bytes |-> bytes]

\* conns after call i has used its connection for the operation
Used(conns, i, name, bytes) ==
    [conns EXCEPT ![ConnOf(i)].ops = Append(@, ConnOp(i, name, bytes))]

COnly == UNCHANGED <<qvars, vvars, uvars, dvars, hvars, rvars>>

InitConcurrent ==
    /\ \E n \in 1..MaxCalls :
          /\ c_env \in [1..n -> CBehaviours]
          /\ c_calls = [i \in 1..n |-> NewCall]
    /\ c_conns = <<>>
    /\ QIdle /\ VIdle /\ UIdle /\ DIdle /\ HIdle /\ RIdle

\* call i is over at position p with the results st and e: the deferred
\* conn.Close() runs when the call has a connection. conns is the state of
\* the connections up to there.
CEnd(i, p, st, e, conns) ==
    /\ c_calls' = [c_calls EXCEPT ![i] = [@ EXCEPT !.pc = p, !.status = st, !.err = e]]
    /\ c_conns' = IF ConnOf(i) # 0
                  THEN [Used(conns, i, "close", <<>>) EXCEPT ![ConnOf(i)].open = FALSE]
                  ELSE conns

\* net.SplitHostPort, net.LookupPort, net.LookupIP
CResolve(i) ==
    /\ c_calls[i].pc = "start"
    /\ LET pa == ParsedAddress(c_env[i].address)
           lp == LookupPort(pa.portStr)
       IN  IF lp.err # "nil" THEN CEnd(i, "failed", <<>>, "port", c_conns)
           ELSE IF c_env[i].ips = 0 THEN CEnd(i, "failed", <<>>, "resolve", c_conns)
           ELSE /\ c_calls' = [c_calls EXCEPT ![i] =
                                  [@ EXCEPT !.pc = "dial", !.host = pa.host, !.port = lp.port]]
                /\ UNCHANGED c_conns
    /\ UNCHANGED c_env
    /\ COnly

\* net.DialTimeout: a connection of its own for the call, or an error
CDial(i) ==
    /\ c_calls[i].pc = "dial"
    /\ IF c_env[i].dial
       THEN /\ c_conns' = Append(c_conns, [owner |-> i, open |-> TRUE,
                                           stream |-> c_env[i].stream, ops |-> <<>>])
            /\ c_calls' = [c_calls EXCEPT ![i] =
                              [@ EXCEPT !.pc = "handshake", !.conn = Len(c_conns) + 1]]
       ELSE CEnd(i, "failed", <<>>, "connect", c_conns)
    /\ UNCHANGED c_env
    /\ COnly

\* sendHandshakePacket on the connection of the call
CHandshake(i) ==
    /\ c_calls[i].pc = "handshake"
    /\ LET conns == Used(c_conns, i, "write",
                         sendPacket(HandshakeBody(c_calls[i].host, c_calls[i].port)))
       IN  IF c_env[i].handshake
           THEN /\ c_conns' = conns
                /\ c_calls' = [c_calls EXCEPT ![i].pc = "statusRequest"]
           ELSE CEnd(i, "failed", <<>>, "handshake", conns)
    /\ UNCHANGED c_env
    /\ COnly

\* sendStatusRequestPacket on the connection of the call
CRequest(i) ==
    /\ c_calls[i].pc = "statusRequest"
    /\ LET conns == Used(c_conns, i, "write", sendPacket(StatusRequestBody))
       IN  IF c_env[i].request
           THEN /\ c_conns' = conns
                /\ c_calls' = [c_calls EXCEPT ![i].pc = "read"]
           ELSE CEnd(i, "failed", <<>>, "statusRequest", conns)
    /\ UNCHANGED c_env
    /\ COnly

\* readAndParseResponse on the connection of the call, the decoding and the
\* return; a panic ends this call only (the Recovery middleware of
\* gin.Default() catches it on the goroutine of the request)
CRead(i) ==
    /\ c_calls[i].pc = "read"
    /\ LET r == readAndParseResponse(c_conns[ConnOf(i)].stream)
           d == DecodeResponse(ParseJSON(r.data))
           conns == Used(c_conns, i, "read", <<>>)
       IN  IF r.panic THEN CEnd(i, "panicked", <<>>, "nil", conns)
           ELSE IF r.err # "nil" THEN CEnd(i, "failed", <<>>, r.err, conns)
           ELSE CEnd(i, IF d.err = "nil" THEN "done" ELSE "failed", d.status, d.err, conns)
    /\ UNCHANGED c_env
    /\ COnly

NextConcurrent ==
    \E i \in DOMAIN c_calls :
        \/ CResolve(i)
        \/ CDial(i)
        \/ CHandshake(i)
        \/ CRequest(i)
        \/ CRead(i)

SpecConcurrent == InitConcurrent /\ [][NextConcurrent]_vars

\* ------------------------------------------------------------------------
\* The protocol run under the fairness the runtime gives
\* ------------------------------------------------------------------------
\* The steps of the call that need nothing from the network are taken, and
\* the two timers fire: net.DialTimeout's 5 s and the 10 s of conn.SetDeadline.
\* Whether and when a name server, a peer's accept or a peer's bytes arrive is
\* up to the network, so LookupIP, Dial and the two writes get no fairness.
LiveSpec ==
    /\ Spec
    /\ WF_vars(ParseAddress)
    /\ WF_vars(DialTimeout)
    /\ WF_vars(DeadlineExpires)
    /\ WF_vars(ReadLength)
    /\ WF_vars(ReadPacketID)
    /\ WF_vars(ReadJSONLength)
    /\ WF_vars(ReadJSON)
    /\ WF_vars(Decode)

\* ------------------------------------------------------------------------
\* Properties
\* ------------------------------------------------------------------------

\* C1: a call of GetServerStatus ends by returning a non-nil status with a nil
\* error or a nil status with a non-nil error, and never by a panic.
C1_ExactlyOneResult ==
    /\ pc # "panicked"
    /\ pc = "done" => retStatus # <<>> /\ retErr = "nil"
    /\ pc = "failed" => retStatus = <<>> /\ retErr # "nil"

\* the text the wire description carries: the bare string, or the string
\* under the key text of an object; empty for every other shape
WireText(d) ==
    IF d.t = "string" THEN d.s
    ELSE IF d.t = "object" /\ d.text.t = "string" THEN d.text.s
    ELSE <<>>

\* an object with a string text and an extra array of objects only
WellTypedExtra(d) ==
    /\ d.t = "object" /\ d.text.t = "string" /\ d.extra.t = "array"
    /\ \A k \in 1..Len(d.extra.a) : d.extra.a[k].t = "object"

\* C2 as stated: for a payload that is a JSON object the decoding succeeds and
\* description.text is the wire text itself; a well-typed extra array comes
\* back entry by entry, unchanged.
C2_Original ==
    (d_pc = "done" /\ d_doc.kind = "object") =>
        /\ d_err = "nil" /\ Len(d_status) = 1
        /\ d_status[1].text = WireText(d_doc.desc)
        /\ WellTypedExtra(d_doc.desc) =>
              d_status[1].extra =
                  [k \in 1..Len(d_doc.desc.extra.a) |-> [text |-> d_doc.desc.extra.a[k].s]]

\* C2 amended: for a payload that is a JSON object the decoding succeeds and
\* description.text is unescapeUnicode of the wire text (the bare string, the
\* string under text, or empty); a well-typed extra array comes back in order
\* with unescapeUnicode applied to each text.
C2_DescriptionText ==
    (d_pc = "done" /\ d_doc.kind = "object") =>
        /\ d_err = "nil" /\ Len(d_status) = 1
        /\ d_status[1].text = unescapeUnicode(WireText(d_doc.desc))
        /\ WellTypedExtra(d_doc.desc) =>
              d_status[1].extra =
                  [k \in 1..Len(d_doc.desc.extra.a) |->
                      [text |-> unescapeUnicode(d_doc.desc.extra.a[k].s)]]

\* a bare string description that holds an escape has been decoded
C2_Witness ==
    /\ d_pc = "done" /\ d_doc.kind = "object"
    /\ d_doc.desc.t = "string" /\ d_doc.desc.s = TxtEsc
    /\ Len(d_status) = 1 /\ d_status[1].text = <<65>>

\* the address ends in a colon and a decimal number, and what stands before
\* that colon holds a letter that is no hexadecimal digit, so that the address
\* is no bare IPv6 literal
CarriesPort(a) ==
    \E i \in 1..(Len(a) - 1) :
        /\ a[i] = ChColon
        /\ \A k \in (i + 1)..Len(a) : IsDigit(a[k])
        /\ \E k \in 1..(i - 1) : a[k] = ChLetterH

NoneOf(a, from, to, chars) == \A k \in from..to : a[k] \notin chars

\* host:port with a host free of colons and brackets, split at position i
PlainForm(a, i) ==
    /\ a[i] = ChColon
    /\ NoneOf(a, 1, i - 1, {ChColon, ChLBracket, ChRBracket})
    /\ NoneOf(a, i + 1, Len(a), {ChColon, ChLBracket, ChRBracket})

\* [host]:port, split at position i
BracketForm(a, i) ==
    /\ i >= 3 /\ a[1] = ChLBracket /\ a[i - 1] = ChRBracket /\ a[i] = ChColon
    /\ NoneOf(a, 2, i - 2, {ChLBracket, ChRBracket})
    /\ NoneOf(a, i + 1, Len(a), {ChColon, ChLBracket, ChRBracket})

\* C3 as stated: host:port gives that host and that port, an address without
\* a colon gives the whole input and 25565, and the default port is used only
\* when the input carries no port.
C3_Original ==
    pc # "start" =>
        /\ \A i \in 1..Len(address) :
              PlainForm(address, i) =>
                  /\ host = SubSeq(address, 1, i - 1)
                  /\ portStr = SubSeq(address, i + 1, Len(address))
        /\ ~Contains(address, ChColon) => host = address /\ portStr = DefaultPortStr
        /\ (host = address /\ portStr = DefaultPortStr) => ~CarriesPort(address)

\* C3 amended: an address of the form host:port (host free of colons and
\* brackets) or [host]:port gives that host, without the brackets, and that
\* port; every other address, those that end in :port after a second colon
\* or a stray bracket included, gives the whole input as host and port 25565.
C3_AddressResolution ==
    pc # "start" =>
        /\ \A i \in 1..Len(address) :
              /\ PlainForm(address, i) =>
                    /\ host = SubSeq(address, 1, i - 1)
                    /\ portStr = SubSeq(address, i + 1, Len(address))
              /\ BracketForm(address, i) =>
                    /\ host = SubSeq(address, 2, i - 2)
                    /\ portStr = SubSeq(address, i + 1, Len(address))
        /\ (\A i \in 1..Len(address) : ~PlainForm(address, i) /\ ~BracketForm(address, i))
              => host = address /\ portStr = DefaultPortStr

\* an address that ends in :port was given the default port
C3_Witness ==
    /\ pc # "start" /\ CarriesPort(address)
    /\ host = address /\ portStr = DefaultPortStr

\* the number of conn.Close() calls so far
Closes == Cardinality({k \in 1..Len(log) : log[k].op = "close"})

\* C4: once the TCP connect has succeeded the connection is closed exactly
\* once by the time the call is over, whichever exit is taken; nothing is
\* written or read after the close; no connection stays open after the call.
C4_ClosedExactlyOnce ==
    /\ Closes <= 1
    /\ \A k \in 1..Len(log) : log[k].op = "close" => k = Len(log)
    /\ pc \in Terminal => conn # "open"
    /\ (pc \in Terminal /\ conn # "none") => Closes = 1
    /\ conn = "none" => Closes = 0

\* the call failed on the packet ID after both writes and two reads
C4_Witness ==
    /\ pc = "failed" /\ retErr = "packetID" /\ conn = "closed" /\ Closes = 1
    /\ Len(wire) = 2

\* C5: every call ends: whatever the remote side does, the call reaches Done
\* or Failed (an abnormal end by panic is counted as an end here).
C5_Terminates == <>(pc \in Terminal)

\* C6: the handler answers a request without address with 400 and does not
\* call the core; otherwise it calls the core once and answers 500 with the
\* error message exactly when the core returned an error, 200 with the status
\* exactly when the core returned a status. One response per request.
C6_HandlerResponses ==
    /\ h_pc = "core" => h_coreCalls = 1 /\ h_address # <<>>
    /\ \A k \in 1..Len(h_served) :
          LET r == h_served[k]
              returnedErr == ~r.core.panic /\ r.core.err # "nil"
              returnedOK == ~r.core.panic /\ r.core.err = "nil" /\ r.coreCalls = 1
          IN  /\ Len(r.responses) = 1
              /\ r.address = <<>> =>
                    r.coreCalls = 0 /\ r.responses[1].code = StatusBadRequest
              /\ r.address # <<>> =>
                    /\ r.coreCalls = 1
                    /\ r.responses[1].code # StatusBadRequest
                    /\ returnedErr <=>
                          /\ r.responses[1].code = StatusInternalServerError
                          /\ r.responses[1].error = r.core.err
                          /\ r.responses[1].error # ""
                    /\ returnedOK <=>
                          /\ r.responses[1].code = StatusOK
                          /\ r.responses[1].status = r.core.status
                          /\ r.responses[1].status # <<>>

\* a request was answered 500 with the error of the core, another 400
C6_Witness ==
    /\ \E k \in 1..Len(h_served) :
          /\ h_served[k].core.err = "connect"
          /\ h_served[k].responses[1].code = StatusInternalServerError
    /\ \E k \in 1..Len(h_served) :
          /\ h_served[k].address = <<>>
          /\ h_served[k].responses[1].code = StatusBadRequest

\* C7: a returned status has players.online >= 0 and players.max >= 0.
C7_PlayersNonNegative ==
    pc = "done" => retStatus[1].online >= 0 /\ retStatus[1].max >= 0

\* a backslash, a u and four hexadecimal digits somewhere in s
HasRawEscape(s) ==
    \E i \in 1..(Len(s) - 5) :
        /\ s[i] = ChBackslash /\ s[i + 1] = ChU
        /\ \A k \in 2..5 : IsHexDigit(s[i + k])

\* C8: the output of unescapeUnicode holds no raw escape sequence.
C8_NoRawEscape == u_pc = "done" => ~HasRawEscape(u_out)

RECURSIVE RefUnescape(_, _)
\* the reference of C9: left to right, a backslash, a u and exactly four
\* hexadecimal digits become the code point, every other byte is copied
RefUnescape(s, i) ==
    IF i > Len(s) THEN <<>>
    ELSE IF i + 5 <= Len(s) /\ s[i] = ChBackslash /\ s[i + 1] = ChU
               /\ \A k \in 2..5 : IsHexDigit(s[i + k])
         THEN WriteRune(ParseUint16(SubSeq(s, i + 2, i + 5))) \o RefUnescape(s, i + 6)
         ELSE <<s[i]>> \o RefUnescape(s, i + 1)

\* C9: unescapeUnicode agrees with the reference on every text; four
\* characters after the u that are not all hexadecimal digits stay as they are.
C9_MatchesReference == u_pc = "done" => u_out = RefUnescape(u_in, 1)

\* C10: readVarInt on the bytes WriteVarInt(v) appended returns v, no error,
\* and consumes exactly those bytes.
C10_RoundTrip ==
    v_pc = "done" =>
        /\ v_res.err = "nil"
        /\ v_res.val = v_val
        /\ v_res.n = Len(Appended)

\* -1 went through the codec as five bytes, with more bytes behind them
C10_Witness ==
    /\ v_pc = "done" /\ v_val = -1 /\ v_res.val = -1 /\ v_res.n = 5
    /\ Len(v_tail) > 0 /\ Len(v_prefix) > 0

\* the k-th group of seven bits of uint32(v), counted from the low end
Group7(v, k) ==
    BitsVal([i \in 0..6 |-> IF 7 * (k - 1) + i <= 31 THEN Bit(v, 7 * (k - 1) + i) ELSE 0], 7)

\* C11: WriteVarInt appends 1 to 5 bytes, the groups of seven bits from the
\* low end, every byte but the last with the high bit set and the last with
\* it clear; 0 gives the byte 00 and -1 gives FF FF FF FF 0F; the bytes that
\* were in the buffer stay as they were.
C11_OutputShape ==
    v_pc # "encode" =>
        /\ Len(v_buf) >= Len(v_prefix)
        /\ SubSeq(v_buf, 1, Len(v_prefix)) = v_prefix
        /\ Len(Appended) \in 1..5
        /\ \A k \in 1..Len(Appended) :
              /\ Appended[k] \in 0..255
              /\ Appended[k] % 128 = Group7(v_val, k)
              /\ Appended[k] >= 128 <=> k < Len(Appended)
        /\ \A k \in (Len(Appended) + 1)..5 : Group7(v_val, k) = 0
        /\ v_val = 0 => Appended = <<0>>
        /\ v_val = -1 => Appended = <<255, 255, 255, 255, 15>>

\* -1 was appended as FF FF FF FF 0F behind bytes the buffer already held
C11_Witness ==
    /\ v_pc = "decode" /\ v_prefix = <<7, 200>>
    /\ v_val = -1 /\ v_buf = <<7, 200, 255, 255, 255, 255, 15>>

\* the phase a position of the call belongs to: 1 Resolving, 2 Connecting,
\* 3 Handshaking, 4 AwaitingResponse, 5 Decoding, 6 Done, 7 Failed; 0 is the
\* end by a panic, which is none of them
PhaseOf(p) ==
    IF p \in {"start", "lookupIP"} THEN 1
    ELSE IF p = "dial" THEN 2
    ELSE IF p \in {"handshake", "statusRequest"} THEN 3
    ELSE IF p \in {"readLength", "readPacketID", "readJSONLength", "readJSON"} THEN 4
    ELSE IF p = "decode" THEN 5
    ELSE IF p = "done" THEN 6
    ELSE IF p = "failed" THEN 7
    ELSE 0

\* a step stays in its phase, moves to the next one without an error, or
\* moves to Failed with the error; Done and Failed are left by no step
PhaseStep ==
    /\ PhaseOf(pc) \in 1..5
    /\ \/ PhaseOf(pc') = PhaseOf(pc)
       \/ PhaseOf(pc') = PhaseOf(pc) + 1 /\ retErr' = "nil"
       \/ PhaseOf(pc') = 7 /\ retErr' # "nil"

\* the operations of a call in the order of the code
OpOrder ==
    << "lookupIP", "dial", "writeHandshake", "writeStatusRequest", "readLength",
       "readPacketID", "readJSONLength", "readJSON", "unmarshal" >>

\* the operations performed so far are the first ones of OpOrder, in that
\* order, with at most a close behind them
InOpOrder ==
    \E n \in 0..Len(OpOrder) :
        /\ Len(log) \in {n, n + 1}
        /\ \A k \in 1..n : log[k].op = OpOrder[k]
        /\ Len(log) = n + 1 => log[n + 1].op = "close"

\* C13: the phases are entered in the order Resolving, Connecting,
\* Handshaking, AwaitingResponse, Decoding, Done, each forward step without an
\* error; an error leads to Failed; Done and Failed are terminal; the
\* handshake is written before the status request, the response is read after
\* both, and the payload is decoded after the read.
C13_PhaseOrder == [][PhaseStep]_vars /\ []InOpOrder

\* the handshake packet for a host of fewer than 100 bytes, byte by byte
ExpectedHandshake(h, p) ==
    LET body == <<0, 255, 255, 255, 255, 15, Len(h)>> \o h \o <<p \div 256, p % 256, 1>>
    IN  <<Len(body)>> \o body

\* the conn.Write calls so far
Writes == {k \in 1..Len(log) : log[k].op \in {"writeHandshake", "writeStatusRequest"}}

\* C14: the first Write carries the length of the body and the body: 00,
\* FF FF FF FF 0F, the length of the host text, the host text as it stands in
\* the address, the port in two bytes big endian, 01; the second Write carries
\* 01 00; each packet goes out in one Write and nothing else is written.
C14_WireBytes ==
    /\ Len(wire) <= 2
    /\ Cardinality(Writes) = Len(wire)
    /\ Len(wire) >= 1 =>
          /\ wire[1] = ExpectedHandshake(host, port)
          /\ wire[1][1] = Len(wire[1]) - 1
          /\ host = SubSeq(address, 1, Len(host)) /\ Len(host) > 0
    /\ Len(wire) = 2 => wire[2] = <<1, 0>>

\* both packets went out for the address h:h:1, whose host is the whole text
\* and whose port is the default
C14_Witness ==
    /\ Len(wire) = 2 /\ port = 25565 /\ host = address /\ Len(host) = 5
    /\ wire[1] = <<15, 0, 255, 255, 255, 255, 15, 5, 104, 58, 104, 58, 49, 99, 221, 1>>

\* the positions among the first n bytes of s that hold a byte with a clear
\* high bit
Stops(s, n) == {k \in 1..n : k <= Len(s) /\ s[k] < 128}

\* C16: readVarInt returns a value when one of the first five bytes has a
\* clear high bit, and stops at the first of them; it returns an error when
\* the first five bytes all have the high bit set; it consumes at most five
\* bytes; a stream that ends before a terminating byte gives an error and no
\* value.
C16_LengthLimit ==
    v_pc = "returned" =>
        /\ v_res.n <= 5
        /\ Stops(v_tail, 5) # {} =>
              /\ v_res.err = "nil"
              /\ v_res.n \in Stops(v_tail, 5)
              /\ \A k \in Stops(v_tail, 5) : v_res.n <= k
        /\ (Len(v_tail) >= 5 /\ Stops(v_tail, 5) = {}) =>
              v_res.err # "nil" /\ v_res.val = 0 /\ v_res.n = 5
        /\ (Len(v_tail) < 5 /\ Stops(v_tail, 5) = {}) =>
              v_res.err = "read" /\ v_res.val = 0 /\ v_res.n = Len(v_tail)

\* five bytes with the high bit set were refused with a sixth byte unread
C16_Witness ==
    /\ v_pc = "returned" /\ v_tail = <<128, 128, 128, 128, 128, 0>>
    /\ v_res.err = "toolong" /\ v_res.n = 5

\* the entries of the log that name the operation
Count(name) == Cardinality({k \in 1..Len(log) : log[k].op = name})

\* the operation an error kind stems from, "" when it is none on the network
FailedOp(e) ==
    IF e = "resolve" THEN "lookupIP"
    ELSE IF e = "connect" THEN "dial"
    ELSE IF e = "handshake" THEN "writeHandshake"
    ELSE IF e = "statusRequest" THEN "writeStatusRequest"
    ELSE ""

\* each network operation happened at most once, the connect went to the
\* first address, and a failed call has its failing operation last but for
\* the close
OnceEach ==
    /\ \A k \in 1..Len(OpOrder) : Count(OpOrder[k]) <= 1
    /\ \A k \in 1..Len(log) : log[k].op = "dial" => log[k].arg = 1 /\ ips[1] = 1
    /\ retErr # "nil" <=> pc = "failed"
    /\ (retErr # "nil" /\ FailedOp(retErr) # "") =>
          \E n \in 1..Len(log) :
              /\ log[n].op = FailedOp(retErr)
              /\ \A k \in (n + 1)..Len(log) : log[k].op = "close"
    /\ retErr \in {"read", "timeout"} =>
          \E n \in 1..Len(log) :
              /\ log[n].op \in {"writeHandshake", "writeStatusRequest", "readLength",
                                "readPacketID", "readJSONLength", "readJSON"}
              /\ \A k \in (n + 1)..Len(log) : log[k].op = "close"

\* C17: one resolution, one connect to the first address, one write of each
\* packet and one response read at most; after the first failing operation
\* nothing but the close happens, and the failure is returned.
C17_NoRetry == []OnceEach /\ [][retErr = "nil"]_vars

\* the connect to the first of two addresses failed and the call returned
C17_Witness ==
    /\ pc = "failed" /\ retErr = "connect" /\ Len(ips) = 2
    /\ log = <<Op("lookupIP", 0), Op("dial", 1)>>

\* the JSON types a field of ServerStatus accepts
FitsInt(v) == v.t \in {"missing", "null", "number"}
FitsString(v) == v.t \in {"missing", "null", "string"}

\* C18: a call that returns success has had no failing step other than a
\* description of an unexpected shape: a version, players or favicon value of
\* the wrong JSON type is returned as an error.
C18_NoSwallowedError ==
    (d_pc = "done" /\ d_err = "nil") =>
        /\ d_doc.kind \in {"object", "null"}
        /\ FitsInt(d_doc.others.protocol)
        /\ FitsInt(d_doc.others.max)
        /\ FitsInt(d_doc.others.online)
        /\ FitsString(d_doc.others.favicon)

\* C19: when the primary parse fails and the wire description is an object,
\* the returned description.text is the object's text when that is a string
\* and empty otherwise, and description.extra is empty.
C19_FallbackObject ==
    (d_pc = "done" /\ UnmarshalStatus(d_doc).err # "nil" /\ d_doc.kind = "object"
        /\ d_doc.desc.t = "object") =>
        /\ d_err = "nil" /\ Len(d_status) = 1
        /\ d_status[1].text = WireText(d_doc.desc)
        /\ d_status[1].extra = <<>>

\* the length of the varint at the head of s: the position of the first byte
\* with a clear high bit among the first five, 0 when there is none
VarLen(s) ==
    IF Stops(s, 5) = {} THEN 0
    ELSE CHOOSE k \in Stops(s, 5) : \A m \in Stops(s, 5) : k <= m

\* the varint at the head of s encodes the value 0: all its groups are zero
EncodesZero(s) == \A k \in 1..VarLen(s) : s[k] % 128 = 0

\* readAndParseResponse returned a payload
Succeeded(r) == r.err = "nil" /\ ~r.panic

\* C15: the read succeeds exactly when three varints can be decoded in turn,
\* the second encodes 0x00 and as many further bytes as the third states are
\* there, and it returns exactly those bytes; otherwise it returns an error;
\* a packet ID that encodes another value gives an error; the value of the
\* first varint does not matter.
C15_Acceptance ==
    r_pc # "call" =>
        LET s1 == Drop(r_stream, VarLen(r_stream))
            s2 == Drop(s1, VarLen(s1))
            rest == Drop(s2, VarLen(s2))
            jsonLen == readVarInt(s2).val
            accept ==
                /\ VarLen(r_stream) > 0 /\ VarLen(s1) > 0 /\ VarLen(s2) > 0
                /\ EncodesZero(s1)
                /\ Len(rest) >= jsonLen
        IN  /\ Succeeded(r_manual) <=> accept
            /\ ~accept => r_manual.err # "nil"
            /\ accept => r_manual.data = SubSeq(rest, 1, jsonLen)
            /\ (VarLen(r_stream) > 0 /\ VarLen(s1) > 0 /\ ~EncodesZero(s1)) =>
                  r_manual.err # "nil"
            /\ VarLen(r_stream) > 0 => r_manual = readAndParseResponse(<<0>> \o s1)

\* C20: on every byte stream the two implementations of readAndParseResponse
\* both return an error or both return the same payload.
C20_Equivalent ==
    r_pc = "done" =>
        \/ r_manual.err # "nil" /\ r_buffered.err # "nil"
        \/ Succeeded(r_manual) /\ Succeeded(r_buffered) /\ r_manual.data = r_buffered.data

\* what a call alone ends with when the network behaves as b says
SoloOutcome(b) ==
    LET pa == ParsedAddress(b.address)
        r == readAndParseResponse(b.stream)
        d == DecodeResponse(ParseJSON(r.data))
        Failed(e) == [pc |-> "failed", status |-> <<>>, err |-> e]
    IN  IF LookupPort(pa.portStr).err # "nil" THEN Failed("port")
        ELSE IF b.ips = 0 THEN Failed("resolve")
        ELSE IF ~b.dial THEN Failed("connect")
        ELSE IF ~b.handshake THEN Failed("handshake")
        ELSE IF ~b.request THEN Failed("statusRequest")
        ELSE IF r.panic THEN [pc |-> "panicked", status |-> <<>>, err |-> "nil"]
        ELSE IF r.err # "nil" THEN Failed(r.err)
        ELSE [pc |-> IF d.err = "nil" THEN "done" ELSE "failed", status |-> d.status,
              err |-> d.err]

\* C12: with several calls at once, in every interleaving, a connection is
\* written, read and closed by the call that opened it only, no two calls
\* hold the same connection, and a call that is over has the outcome it has
\* alone against the same behaviour of the network.
C12_Isolation ==
    /\ \A c \in 1..Len(c_conns) :
          \A k \in 1..Len(c_conns[c].ops) : c_conns[c].ops[k].by = c_conns[c].owner
    /\ \A i \in DOMAIN c_calls :
          /\ c_calls[i].conn # 0 =>
                /\ c_calls[i].conn \in 1..Len(c_conns)
                /\ c_conns[c_calls[i].conn].owner = i
                /\ \A j \in DOMAIN c_calls : j # i => c_calls[j].conn # c_calls[i].conn
          /\ c_calls[i].pc \in Terminal =>
                /\ [pc |-> c_calls[i].pc, status |-> c_calls[i].status,
                    err |-> c_calls[i].err] = SoloOutcome(c_env[i])
                /\ c_calls[i].conn # 0 => ~c_conns[c_calls[i].conn].open

\* two calls are over, one with the status of its own server and one with
\* the error of its own, and the second call was the first to connect
C12_Witness ==
    /\ Len(c_calls) >= 2 /\ Len(c_conns) >= 2
    /\ c_calls[1].pc = "done" /\ c_calls[1].status # <<>>
    /\ c_calls[1].status[1].text = TxtHi
    /\ c_calls[2].pc = "failed" /\ c_calls[2].err = "packetID"
    /\ c_conns[1].owner = 2 /\ c_conns[2].owner = 1

====
